---- MODULE Spec2Model ----
(***************************************************************************)
(* Model of src/vm/callables.rs: FunctionIdentifier, DefinedFunction       *)
(* (construction, execute_apply, check_trait_expectations, apply and the   *)
(* visibility predicates).                                                 *)
(***************************************************************************)
EXTENDS Integers, Sequences, FiniteSets

VARIABLES
    func,       \* the DefinedFunction a call is made on
    call,       \* the call in flight: entry point, arguments, environment
    outcome,    \* what the call did: bindings, evaluator invocations, result
    check,      \* check_trait_expectations: its inputs and its result
    idents      \* FunctionIdentifier construction: its inputs and the identifiers

vars == <<func, call, outcome, check, idents>>

(***************************************************************************)
(* Bounds.                                                                 *)
(***************************************************************************)
\* Longest parameter list of a declaration and longest argument list of a call.
MaxArity == 3
\* Longest parameter and argument list of the calls made through apply.
MaxDispatchArity == 2
\* Longest parameter list of a trait method signature and of its implementation.
MaxSig == 2
\* Longest generated name or context string, in characters.
MaxStrLen == 2

(***************************************************************************)
(* Strings are sequences of characters, so that format! is concatenation.  *)
(***************************************************************************)
\* The literal of format!("_native_:{}", name), callables.rs line 180.
NativePrefix == <<"_", "n", "a", "t", "i", "v", "e", "_", ":">>

\* FunctionIdentifier::new_native_function
new_native_function(name) == [identifier |-> NativePrefix \o name]

\* FunctionIdentifier::new_user_function
new_user_function(name, context) == [identifier |-> context \o <<":">> \o name]

(***************************************************************************)
(* Types and values (vm::types).  Uniform records keep them comparable.    *)
(***************************************************************************)
IntType == [tag |-> "IntType", name |-> "", len |-> 0]
BoolType == [tag |-> "BoolType", name |-> "", len |-> 0]
PrincipalType == [tag |-> "PrincipalType", name |-> "", len |-> 0]
BufferType(n) == [tag |-> "BufferType", name |-> "", len |-> n]
TraitReferenceType(alias) == [tag |-> "TraitReferenceType", name |-> alias, len |-> 0]

IntValue == [tag |-> "Int", repr |-> "7"]
BoolValue == [tag |-> "Bool", repr |-> "true"]
ContractPrincipal(id) == [tag |-> "Principal.Contract", repr |-> id]

\* TypeSignature::type_of: the type of a runtime value; never a trait reference.
type_of(v) ==
    CASE v.tag = "Int" -> IntType
      [] v.tag = "Bool" -> BoolType
      [] OTHER -> PrincipalType

\* TypeSignature::admits_type: equal types, or a buffer no longer than expected.
admits_type(expected, actual) ==
    IF expected.tag = "BufferType" /\ actual.tag = "BufferType"
    THEN actual.len <= expected.len
    ELSE expected = actual

\* TypeSignature::admits
admits(type_sig, value) == admits_type(type_sig, type_of(value))

\* A trait identity: (defining contract, trait name).
TraitIdentifier(contract, name) == [contract_identifier |-> contract, name |-> name]

(***************************************************************************)
(* Maps (HashMap) are functions; insert reports whether the key was there. *)
(***************************************************************************)
EmptyMap == <<>>

MapInsert(m, k, v) == [x \in (DOMAIN m) \cup {k} |-> IF x = k THEN v ELSE m[x]]

\* ContractContext::lookup_trait_reference: Some(id) iff the alias is in the table.
lookup_trait_reference(contract_context, alias) ==
    IF alias \in DOMAIN contract_context.trait_refs
    THEN [some |-> TRUE, id |-> contract_context.trait_refs[alias]]
    ELSE [some |-> FALSE, id |-> TraitIdentifier("", "")]

(***************************************************************************)
(* Results.                                                                *)
(***************************************************************************)
Ok(v) == [kind |-> "Ok", value |-> v]
IncorrectArgumentCount(expected, actual) ==
    [kind |-> "Err", error |-> "IncorrectArgumentCount", expected |-> expected, actual |-> actual]
TypeValueError(type_sig, value) ==
    [kind |-> "Err", error |-> "TypeValueError", type |-> type_sig, value |-> value]
NameAlreadyUsed(name) == [kind |-> "Err", error |-> "NameAlreadyUsed", name |-> name]
BadTraitImplementation(trait_name, func_name) ==
    [kind |-> "Err", error |-> "BadTraitImplementation", trait |-> trait_name, function |-> func_name]
\* Error::ShortReturn carrying a ShortReturnType
ShortReturn(variant, v) == [kind |-> "Err", error |-> "ShortReturn", variant |-> variant, carried |-> v]
RuntimeError(what) == [kind |-> "Err", error |-> what]
\* Option::unwrap on None
Panic == [kind |-> "Panic"]
NoResult == [kind |-> "None"]

(***************************************************************************)
(* DefinedFunction.                                                        *)
(***************************************************************************)
DefineTypes == {"ReadOnly", "Public", "Private"}

\* DefinedFunction::new: the (name, type) list is unzipped into two parallel
\* sequences; nothing is validated.
DefinedFunction_new(arguments, body, define_type, name, context_name) ==
    [identifier |-> new_user_function(name, context_name),
     name |-> name,
     arguments |-> [i \in 1..Len(arguments) |-> arguments[i][1]],
     define_type |-> define_type,
     body |-> body,
     arg_types |-> [i \in 1..Len(arguments) |-> arguments[i][2]]]

\* DefinedFunction::is_read_only
is_read_only(f) == f.define_type = "ReadOnly"

\* DefinedFunction::is_public
is_public(f) ==
    CASE f.define_type = "Public" -> TRUE
      [] f.define_type = "Private" -> FALSE
      [] f.define_type = "ReadOnly" -> TRUE

\* DefinedFunction::get_identifier
get_identifier(f) == f.identifier

\* LocalContext::new
LocalContext_new == [variables |-> EmptyMap, callable_contracts |-> EmptyMap]

Min(a, b) == IF a <= b THEN a ELSE b

\* Length of arguments.zip(arg_types).zip(args): zip stops at the shortest.
ZipLen(f, args) == Min(Min(Len(f.arguments), Len(f.arg_types)), Len(args))

\* An arity error that carries (actual, expected).
ArityError_Swapped(f, args) == IncorrectArgumentCount(Len(args), Len(f.arguments))

\* The error of the arity check, line 67: expected first, actual second.
ArityError(f, args) == IncorrectArgumentCount(Len(f.arguments), Len(args))

\* The trait-reference arm, lines 79-80: the reference is resolved in the
\* current contract (unwrap panics when it is not) and the pair is inserted
\* in callable_contracts, replacing any pair already under that name.
BindCallable(context, name, type_sig, value, env) ==
    LET found == lookup_trait_reference(env.contract_context, type_sig.name)
    IN  IF found.some
        THEN [context |-> [context EXCEPT !.callable_contracts =
                             MapInsert(@, name, [contract |-> value.repr, trait |-> found.id])],
              failure |-> NoResult]
        ELSE [context |-> context, failure |-> Panic]

\* An admission check that refuses nothing.
AdmissionFailure_Never(type_sig, value) == NoResult

\* The admission check, lines 83-85.
AdmissionFailure(type_sig, value) ==
    IF ~admits(type_sig, value) THEN TypeValueError(type_sig, value) ELSE NoResult

\* The insertion in variables, lines 86-88: HashMap::insert stores the value
\* and returns the one it replaced, which is the error.
BindVariable(context, name, value) ==
    [context |-> [context EXCEPT !.variables = MapInsert(@, name, value)],
     failure |-> IF name \in DOMAIN context.variables
                 THEN NameAlreadyUsed(name)
                 ELSE NoResult]

\* One iteration of the binding loop of execute_apply (lines 72-91) for
\* position i: the context after it, whether admits was called, and the
\* failure that ends the call, if any.
BindArg(f, args, env, i, context) ==
    LET name == f.arguments[i]
        type_sig == f.arg_types[i]
        value == args[i]
    IN  IF type_sig.tag = "TraitReferenceType" /\ value.tag = "Principal.Contract"
        THEN LET bound == BindCallable(context, name, type_sig, value, env)
             IN  [context |-> bound.context, admits_called |-> FALSE,
                  failure |-> bound.failure]
        ELSE LET refused == AdmissionFailure(type_sig, value)
             IN  IF refused.kind # "None"
                 THEN [context |-> context, admits_called |-> TRUE, failure |-> refused]
                 ELSE LET bound == BindVariable(context, name, value)
                      IN  [context |-> bound.context, admits_called |-> TRUE,
                           failure |-> bound.failure]

\* A binding loop that goes on after a failure and reports the last one.
RECURSIVE BindArgs_KeepGoing(_, _, _, _, _, _)
BindArgs_KeepGoing(f, args, env, i, context, checked) ==
    IF i > ZipLen(f, args)
    THEN [context |-> context, admits_checked |-> checked, processed |-> i - 1,
          failure |-> NoResult]
    ELSE LET step == BindArg(f, args, env, i, context)
             seen == IF step.admits_called THEN checked \cup {i} ELSE checked
             rest == BindArgs_KeepGoing(f, args, env, i + 1, step.context, seen)
         IN  IF step.failure.kind # "None" /\ rest.failure.kind = "None"
             THEN [rest EXCEPT !.failure = step.failure]
             ELSE rest

\* The binding loop from position i on: it stops at the first failure.
RECURSIVE BindArgs(_, _, _, _, _, _)
BindArgs(f, args, env, i, context, checked) ==
    IF i > ZipLen(f, args)
    THEN [context |-> context, admits_checked |-> checked, processed |-> i - 1,
          failure |-> NoResult]
    ELSE LET step == BindArg(f, args, env, i, context)
             seen == IF step.admits_called THEN checked \cup {i} ELSE checked
         IN  IF step.failure.kind # "None"
             THEN [context |-> step.context, admits_checked |-> seen, processed |-> i,
                   failure |-> step.failure]
             ELSE BindArgs(f, args, env, i + 1, step.context, seen)

\* ShortReturnType into Value: either variant yields the value it carries.
ShortReturnValue(e) == e.carried

\* A post-processing that propagates the early return as the error it is.
UnwrapShortReturn_Propagate(r) == r

\* The match on the evaluator's result, lines 97-105.
UnwrapShortReturn(r) ==
    IF r.kind = "Ok" THEN r
    ELSE IF r.kind = "Err" /\ r.error = "ShortReturn" THEN Ok(ShortReturnValue(r))
    ELSE r

\* DefinedFunction::execute_apply, where body_result is what eval returns if
\* it is called.  evals lists the evaluator's invocations.
execute_apply(f, args, env, body_result) ==
    IF Len(args) # Len(f.arguments)
    THEN [context |-> LocalContext_new, admits_checked |-> {}, processed |-> 0,
          evals |-> <<>>,
          result |-> ArityError(f, args)]
    ELSE LET bound == BindArgs(f, args, env, 1, LocalContext_new, {})
         IN  IF bound.failure.kind # "None"
             THEN [context |-> bound.context, admits_checked |-> bound.admits_checked,
                   processed |-> bound.processed, evals |-> <<>>,
                   result |-> bound.failure]
             ELSE [context |-> bound.context, admits_checked |-> bound.admits_checked,
                   processed |-> bound.processed,
                   evals |-> <<[body |-> f.body, context |-> bound.context,
                                result |-> body_result]>>,
                   result |-> UnwrapShortReturn(body_result)]

(***************************************************************************)
(* Inputs of the calls.                                                    *)
(***************************************************************************)
Names == {"x", "y"}
ApplyTypes == {IntType, TraitReferenceType("t1"), TraitReferenceType("t2")}
ApplyValues == {IntValue, ContractPrincipal("c1")}

TraitA == TraitIdentifier("c0", "A")
TraitB == TraitIdentifier("c0", "B")

\* The current contract's trait-reference table: every alias resolved, or t2 not.
Environments ==
    {[contract_context |-> [trait_refs |-> [a \in {"t1", "t2"} |-> IF a = "t1" THEN TraitA ELSE TraitB]]],
     [contract_context |-> [trait_refs |-> [a \in {"t1"} |-> TraitA]]]}

SeqsUpTo(S, n) == UNION {[1..k -> S] : k \in 0..n}

ParamLists(n) == SeqsUpTo(Names \X ApplyTypes, n)
ArgLists(n) == SeqsUpTo(ApplyValues, n)

FnName == <<"f">>
CtxName == <<"c">>
Body == "body"

\* What the body evaluator may return.
EvalResults ==
    {Ok(IntValue), Ok(BoolValue),
     ShortReturn("ExpectedValue", IntValue), ShortReturn("AssertionFailed", BoolValue),
     RuntimeError("Runtime"), RuntimeError("Unchecked")}

NoSender == [some |-> FALSE]

Idle == [entry |-> "none"]
NoOutcome == [route |-> "none"]
NoCheck == [state |-> "none"]
NoIdents == [state |-> "none"]

(***************************************************************************)
(* Calls of execute_apply on a constructed function.                       *)
(***************************************************************************)
Init ==
    /\ func \in {DefinedFunction_new(p, Body, d, FnName, CtxName) :
                    p \in ParamLists(MaxArity), d \in DefineTypes}
    /\ call = Idle
    /\ outcome = NoOutcome
    /\ check = NoCheck
    /\ idents = NoIdents

\* A call of execute_apply: by apply, or by the environment's transaction.
ExecuteApply(args, env, body_result) ==
    /\ call.entry = "none"
    /\ call' = [entry |-> "execute_apply", args |-> args, env |-> env]
    /\ outcome' = [route |-> "direct", delegated |-> <<>>,
                   run |-> execute_apply(func, args, env, body_result)]
    /\ UNCHANGED <<func, check, idents>>

Next ==
    \E args \in ArgLists(MaxArity), env \in Environments, r \in EvalResults :
        ExecuteApply(args, env, r)

Spec == Init /\ [][Next]_vars

(***************************************************************************)
(* Calls of apply, the dispatcher.                                         *)
(***************************************************************************)
\* What the environment's execute_function_as_transaction may return.
TransactionResults == {Ok(IntValue), RuntimeError("Runtime")}

\* Environment::execute_function_as_transaction is the environment's: the
\* delegation is recorded and its result is the environment's choice.
execute_function_as_transaction(f, args, sender, tx_result) ==
    [route |-> "transaction",
     delegated |-> <<[function |-> f, args |-> args, sender |-> sender]>>,
     run |-> [context |-> LocalContext_new, admits_checked |-> {}, processed |-> 0,
              evals |-> <<>>, result |-> tx_result]]

\* A dispatcher that binds the arguments of a read-only function itself.
apply_ReadOnlyDirect(f, args, env, body_result, tx_result) ==
    CASE f.define_type = "Private" ->
           [route |-> "direct", delegated |-> <<>>,
            run |-> execute_apply(f, args, env, body_result)]
      [] f.define_type = "Public" ->
           execute_function_as_transaction(f, args, NoSender, tx_result)
      [] f.define_type = "ReadOnly" ->
           [route |-> "direct", delegated |-> <<>>,
            run |-> execute_apply(f, args, env, body_result)]

\* DefinedFunction::apply
apply(f, args, env, body_result, tx_result) ==
    CASE f.define_type = "Private" ->
           [route |-> "direct", delegated |-> <<>>,
            run |-> execute_apply(f, args, env, body_result)]
      [] f.define_type = "Public" ->
           execute_function_as_transaction(f, args, NoSender, tx_result)
      [] f.define_type = "ReadOnly" ->
           execute_function_as_transaction(f, args, NoSender, tx_result)

InitDispatch ==
    /\ func \in {DefinedFunction_new(p, Body, d, FnName, CtxName) :
                    p \in ParamLists(MaxDispatchArity), d \in DefineTypes}
    /\ call = Idle
    /\ outcome = NoOutcome
    /\ check = NoCheck
    /\ idents = NoIdents

Apply(args, env, body_result, tx_result) ==
    /\ call.entry = "none"
    /\ call' = [entry |-> "apply", args |-> args, env |-> env]
    /\ outcome' = apply(func, args, env, body_result, tx_result)
    /\ UNCHANGED <<func, check, idents>>

NextDispatch ==
    \E args \in ArgLists(MaxDispatchArity), env \in Environments,
       r \in EvalResults, t \in TransactionResults :
        Apply(args, env, r, t)

SpecDispatch == InitDispatch /\ [][NextDispatch]_vars

(***************************************************************************)
(* check_trait_expectations.                                               *)
(***************************************************************************)
Unit == [tag |-> "Unit", repr |-> "()"]

\* ContractContext::lookup_trait_definition: Some(method table) iff defined.
lookup_trait_definition(contract_context, trait_name) ==
    IF trait_name \in DOMAIN contract_context.defined_traits
    THEN [some |-> TRUE, methods |-> contract_context.defined_traits[trait_name]]
    ELSE [some |-> FALSE, methods |-> EmptyMap]

\* An arity check that lets every length through.
SigArityMismatch_Never(expected_sig, f) == FALSE

\* The arity check, line 117.
SigArityMismatch(expected_sig, f) == Len(expected_sig.args) # Len(f.arg_types)

\* A comparison of two trait references by their alias names.
TraitRefsAgree_ByAlias(contract_defining_trait, contract_to_check, expected, actual) ==
    expected.name = actual.name

\* Two trait references, lines 125-131: each is resolved in its own contract
\* and the identities are compared; an unresolved one is a mismatch.
TraitRefsAgree(contract_defining_trait, contract_to_check, expected, actual) ==
    LET expected_trait_id == lookup_trait_reference(contract_defining_trait, expected.name)
        actual_trait_id == lookup_trait_reference(contract_to_check, actual.name)
    IN  /\ expected_trait_id.some
        /\ actual_trait_id.some
        /\ actual_trait_id.id = expected_trait_id.id

\* One pair of the loop, lines 123-138.
ArgCompatible(contract_defining_trait, contract_to_check, expected_arg, actual_arg) ==
    IF expected_arg.tag = "TraitReferenceType" /\ actual_arg.tag = "TraitReferenceType"
    THEN TraitRefsAgree(contract_defining_trait, contract_to_check, expected_arg, actual_arg)
    ELSE admits_type(expected_arg, actual_arg)

\* The loop over expected_sig.args.zip(self.arg_types) from position i on:
\* TRUE iff no pair returns the error.
RECURSIVE ArgsCompatible(_, _, _, _, _)
ArgsCompatible(contract_defining_trait, contract_to_check, expected_args, actual_args, i) ==
    IF i > Min(Len(expected_args), Len(actual_args)) THEN TRUE
    ELSE IF ~ArgCompatible(contract_defining_trait, contract_to_check,
                           expected_args[i], actual_args[i])
    THEN FALSE
    ELSE ArgsCompatible(contract_defining_trait, contract_to_check,
                        expected_args, actual_args, i + 1)

\* DefinedFunction::check_trait_expectations
check_trait_expectations(f, contract_defining_trait, trait_identifier, contract_to_check) ==
    LET trait_name == trait_identifier.name
        constraining_trait == lookup_trait_definition(contract_defining_trait, trait_name)
    IN  IF ~constraining_trait.some THEN Panic
        ELSE IF f.name \notin DOMAIN constraining_trait.methods THEN Panic
        ELSE LET expected_sig == constraining_trait.methods[f.name]
             IN  IF SigArityMismatch(expected_sig, f)
                 THEN BadTraitImplementation(trait_name, f.name)
                 ELSE IF ~ArgsCompatible(contract_defining_trait, contract_to_check,
                                         expected_sig.args, f.arg_types, 1)
                 THEN BadTraitImplementation(trait_name, f.name)
                 ELSE Ok(Unit)

SigTypes ==
    {BufferType(1), BufferType(2), TraitReferenceType("a"), TraitReferenceType("b")}
Signatures == SeqsUpTo(SigTypes, MaxSig)
ParamNames == <<"p1", "p2", "p3", "p4">>
MethodName == <<"m">>
TraitT == TraitIdentifier("c0", "T")

\* The method tables of the defining contract: trait T with method m of some
\* signature, trait T without m, or no trait T.
DefinedTraits ==
    {[t \in {"T"} |-> [m \in {MethodName} |-> [args |-> sig, returns |-> IntType]]] :
        sig \in Signatures}
    \cup {[t \in {"T"} |-> EmptyMap], EmptyMap}

DefiningTraitRefs ==
    {[a \in {"a", "b"} |-> IF a = "a" THEN TraitA ELSE TraitB],
     [a \in {"a"} |-> TraitA]}
CheckedTraitRefs ==
    {[a \in {"a", "b"} |-> IF a = "a" THEN TraitA ELSE TraitB],
     [a \in {"a", "b"} |-> IF a = "a" THEN TraitB ELSE TraitA],
     [a \in {"b"} |-> TraitA]}

InitTrait ==
    /\ check \in
         {[state |-> "input",
           self |-> DefinedFunction_new([i \in 1..Len(sig) |-> <<ParamNames[i], sig[i]>>],
                                        Body, "Public", MethodName, CtxName),
           contract_defining_trait |-> [trait_refs |-> dr, defined_traits |-> dt],
           trait_identifier |-> TraitT,
           contract_to_check |-> [trait_refs |-> cr, defined_traits |-> EmptyMap],
           result |-> NoResult] :
            sig \in Signatures, dt \in DefinedTraits,
            dr \in DefiningTraitRefs, cr \in CheckedTraitRefs}
    /\ func = DefinedFunction_new(<<>>, Body, "Public", MethodName, CtxName)
    /\ call = Idle
    /\ outcome = NoOutcome
    /\ idents = NoIdents

CheckTraitExpectations ==
    /\ check.state = "input"
    /\ check' = [check EXCEPT
                   !.state = "done",
                   !.result = check_trait_expectations(check.self,
                                 check.contract_defining_trait, check.trait_identifier,
                                 check.contract_to_check)]
    /\ UNCHANGED <<func, call, outcome, idents>>

NextTrait == CheckTraitExpectations

SpecTrait == InitTrait /\ [][NextTrait]_vars

(***************************************************************************)
(* FunctionIdentifier construction.                                        *)
(***************************************************************************)
\* CallableType::get_identifier; a callable is its variant with the name it
\* carries and, for a user function, the context it was defined in.
CallableType_get_identifier(callable) ==
    CASE callable.variant = "UserFunction" ->
           get_identifier(DefinedFunction_new(<<>>, Body, "Private",
                                              callable.name, callable.context))
      [] callable.variant = "NativeFunction" -> new_native_function(callable.name)
      [] callable.variant = "SpecialFunction" -> new_native_function(callable.name)

NonEmptyStrings(alphabet, n) == UNION {[1..k -> alphabet] : k \in 1..n}

\* Function names: non-empty, without a colon.
FunctionNames == NonEmptyStrings({"f", "g"}, MaxStrLen)
\* Defining contexts: any string, among them the text of the native prefix.
NativeWord == <<"_", "n", "a", "t", "i", "v", "e", "_">>
ContextNames == SeqsUpTo({"c", ":"}, MaxStrLen) \cup {NativeWord}

Callables ==
    {[variant |-> v, name |-> n, context |-> <<>>] :
        v \in {"NativeFunction", "SpecialFunction"}, n \in FunctionNames}
    \cup {[variant |-> "UserFunction", name |-> n, context |-> c] :
            n \in FunctionNames, c \in ContextNames}

InitIdent ==
    /\ idents \in {[state |-> "input", first |-> a, second |-> b,
                    first_id |-> [identifier |-> <<>>],
                    second_id |-> [identifier |-> <<>>]] :
                     a \in Callables, b \in Callables}
    /\ func = DefinedFunction_new(<<>>, Body, "Private", FnName, CtxName)
    /\ call = Idle
    /\ outcome = NoOutcome
    /\ check = NoCheck

GetIdentifiers ==
    /\ idents.state = "input"
    /\ idents' = [idents EXCEPT
                    !.state = "done",
                    !.first_id = CallableType_get_identifier(idents.first),
                    !.second_id = CallableType_get_identifier(idents.second)]
    /\ UNCHANGED <<func, call, outcome, check>>

NextIdent == GetIdentifiers

SpecIdent == InitIdent /\ [][NextIdent]_vars

(***************************************************************************)
(* The call in flight, read off the state.                                 *)
(***************************************************************************)
Called == call.entry # "none"
Arity == Len(func.arguments)
ArityMatches == Called /\ Len(call.args) = Arity
Positions == 1..Arity
Evaluated == outcome.run.evals # <<>>
Result == outcome.run.result

\* Position i takes the trait-reference arm.
Deferred(i) ==
    /\ func.arg_types[i].tag = "TraitReferenceType"
    /\ call.args[i].tag = "Principal.Contract"
Resolves(i) == func.arg_types[i].name \in DOMAIN call.env.contract_context.trait_refs
Admitted(i) == admits(func.arg_types[i], call.args[i])
\* An earlier position put the same name in the variables map.
DuplicateVariable(i) ==
    \E k \in 1..(i - 1) : func.arguments[k] = func.arguments[i] /\ ~Deferred(k)
Passes(i) == IF Deferred(i) THEN Resolves(i) ELSE Admitted(i) /\ ~DuplicateVariable(i)
FirstFailing ==
    IF \A i \in Positions : Passes(i) THEN 0
    ELSE CHOOSE i \in Positions : ~Passes(i) /\ \A k \in 1..(i - 1) : Passes(k)
FailureAt(i) ==
    IF Deferred(i) THEN Panic
    ELSE IF ~Admitted(i) THEN TypeValueError(func.arg_types[i], call.args[i])
    ELSE NameAlreadyUsed(func.arguments[i])
\* Position i has a declared type that is no trait reference and does not admit its value.
Refused(i) == func.arg_types[i].tag # "TraitReferenceType" /\ ~Admitted(i)

(***************************************************************************)
(* Claims about execute_apply (Spec).                                      *)
(***************************************************************************)
\* C1: a call with len(args) # arity fails with IncorrectArgumentCount(arity,
\* len(args)), expected first and actual second, and the body evaluator is
\* never invoked.
C1_ArityMismatch ==
    (Called /\ Len(call.args) # Arity) =>
        /\ Result = IncorrectArgumentCount(Arity, Len(call.args))
        /\ ~Evaluated

C1_Witness ==
    /\ Called /\ Arity = 2 /\ Len(call.args) = 1
    /\ Result = IncorrectArgumentCount(2, 1)

\* C2 as claimed: with correct arity, whenever some parameter of non-trait
\* type does not admit its value, the call fails with a TypeValueError
\* carrying the declared type and the value of a parameter that is not
\* admitted, and the body is not evaluated.  (Stated for the calls whose
\* trait references all resolve, as earlier validation is meant to ensure.)
C2_AsClaimed ==
    (/\ ArityMatches
     /\ \E i \in Positions : Refused(i)
     /\ \A i \in Positions : Deferred(i) => Resolves(i)) =>
        /\ ~Evaluated
        /\ \E i \in Positions :
              ~Admitted(i) /\ Result = TypeValueError(func.arg_types[i], call.args[i])

\* C2 amended: with correct arity, whenever some parameter of non-trait type
\* does not admit its value, the call fails and the body is not evaluated;
\* the failure is that parameter's TypeValueError when every earlier
\* parameter binds, and otherwise the failure of the first parameter that
\* does not bind.
C2_TypeAdmission ==
    ArityMatches =>
        \A i \in Positions :
            Refused(i) =>
                /\ ~Evaluated
                /\ Result.kind \in {"Err", "Panic"}
                /\ (\A k \in 1..(i - 1) : Passes(k)) =>
                       Result = TypeValueError(func.arg_types[i], call.args[i])
                /\ (\E k \in 1..(i - 1) : ~Passes(k)) =>
                       Result = FailureAt(FirstFailing)

C2_Witness ==
    /\ ArityMatches /\ Arity = 2
    /\ Passes(1) /\ Refused(2)
    /\ Result = TypeValueError(IntType, ContractPrincipal("c1"))
    /\ ~Evaluated

\* C3 as claimed: when the body is evaluated, every parameter of trait-
\* reference type given a contract principal had no admits check and holds,
\* under its name in callable_contracts, the pair (that principal, the
\* identity the current contract resolves the reference to).
C3_AsClaimed ==
    (ArityMatches /\ Evaluated) =>
        \A i \in Positions :
            Deferred(i) =>
                /\ i \notin outcome.run.admits_checked
                /\ func.arguments[i] \in DOMAIN outcome.run.evals[1].context.callable_contracts
                /\ outcome.run.evals[1].context.callable_contracts[func.arguments[i]] =
                      [contract |-> call.args[i].repr,
                       trait |-> call.env.contract_context.trait_refs[func.arg_types[i].name]]

\* C4 as claimed: with correct arity, a parameter name at two positions and
\* every argument otherwise admitted, the call fails with NameAlreadyUsed of
\* a repeated name and the body is not evaluated; so an evaluated body means
\* pairwise distinct parameter names.
C4_AsClaimed ==
    (/\ ArityMatches
     /\ \E i, j \in Positions : i < j /\ func.arguments[i] = func.arguments[j]
     /\ \A i \in Positions : IF Deferred(i) THEN Resolves(i) ELSE Admitted(i)) =>
        /\ ~Evaluated
        /\ \E i, j \in Positions :
              /\ i < j /\ func.arguments[i] = func.arguments[j]
              /\ Result = NameAlreadyUsed(func.arguments[j])

\* C5: once the arguments are bound, a successful evaluation is returned as
\* it is, an early return carrying v becomes the success v, and every other
\* failure is returned unchanged.
C5_PostProcessing ==
    (Called /\ Evaluated) =>
        LET r == outcome.run.evals[1].result
        IN  /\ r.kind = "Ok" => Result = r
            /\ (r.kind = "Err" /\ r.error = "ShortReturn") =>
                   Result = [kind |-> "Ok", value |-> r.carried]
            /\ (r.kind = "Err" /\ r.error # "ShortReturn") => Result = r

C5_Witness ==
    /\ Called /\ Evaluated
    /\ outcome.run.evals[1].result = ShortReturn("ExpectedValue", IntValue)
    /\ Result = Ok(IntValue)

\* C10: arguments are bound in declaration order up to the first one that
\* fails; the call then returns that position's failure with no later
\* position checked or bound and the body not evaluated; the body is
\* evaluated, once, only with every position bound.
C10_BindingOrder ==
    ArityMatches =>
        /\ Len(outcome.run.evals) <= 1
        /\ IF FirstFailing = 0
           THEN /\ outcome.run.processed = Arity
                /\ Len(outcome.run.evals) = 1
                /\ outcome.run.evals[1].context = outcome.run.context
                /\ \A i \in Positions :
                      IF Deferred(i)
                      THEN func.arguments[i] \in DOMAIN outcome.run.context.callable_contracts
                      ELSE func.arguments[i] \in DOMAIN outcome.run.context.variables
           ELSE /\ outcome.run.processed = FirstFailing
                /\ ~Evaluated
                /\ Result = FailureAt(FirstFailing)
                /\ outcome.run.admits_checked \subseteq 1..FirstFailing
                /\ (DOMAIN outcome.run.context.variables)
                     \cup (DOMAIN outcome.run.context.callable_contracts)
                     \subseteq {func.arguments[k] : k \in 1..FirstFailing}

C10_Witness ==
    /\ ArityMatches /\ Arity = 3
    /\ Passes(1) /\ Refused(2)
    /\ func.arg_types[3].tag = "TraitReferenceType" /\ call.args[3] = IntValue
    /\ Result = TypeValueError(IntType, ContractPrincipal("c1"))
    /\ outcome.run.processed = 2

(***************************************************************************)
(* Claims about apply and the visibility predicates (SpecDispatch).        *)
(***************************************************************************)
\* C6: apply hands the function, the same arguments and no sender to
\* execute_function_as_transaction, binding nothing itself, exactly when
\* is_public() holds, that is for Public and ReadOnly; it runs execute_apply
\* directly exactly when the function is Private; is_read_only() holds
\* exactly for ReadOnly.
C6_Dispatch ==
    /\ is_public(func) <=> func.define_type \in {"Public", "ReadOnly"}
    /\ is_read_only(func) <=> func.define_type = "ReadOnly"
    /\ Called =>
        /\ is_public(func) <=>
              /\ outcome.route = "transaction"
              /\ outcome.delegated =
                    <<[function |-> func, args |-> call.args, sender |-> NoSender]>>
              /\ outcome.run.processed = 0
              /\ outcome.run.context = LocalContext_new
              /\ ~Evaluated
        /\ func.define_type = "Private" <=>
              /\ outcome.route = "direct"
              /\ outcome.delegated = <<>>
              /\ \E r \in EvalResults :
                    outcome.run = execute_apply(func, call.args, call.env, r)

C6_Witness ==
    /\ Called /\ func.define_type = "ReadOnly" /\ Len(call.args) = 1
    /\ outcome.route = "transaction"
    /\ outcome.delegated[1].function = func

(***************************************************************************)
(* Claims about check_trait_expectations (SpecTrait).                      *)
(***************************************************************************)
Checked == check.state = "done"
\* The trait defines a method with the function's name.
MethodDefined ==
    /\ "T" \in DOMAIN check.contract_defining_trait.defined_traits
    /\ check.self.name \in DOMAIN check.contract_defining_trait.defined_traits["T"]
Expected == check.contract_defining_trait.defined_traits["T"][check.self.name].args
Actual == check.self.arg_types
BothTraits(i) ==
    Expected[i].tag = "TraitReferenceType" /\ Actual[i].tag = "TraitReferenceType"
\* Both aliases resolve, each in its own contract, and to the same identity.
SameIdentity(i) ==
    /\ Expected[i].name \in DOMAIN check.contract_defining_trait.trait_refs
    /\ Actual[i].name \in DOMAIN check.contract_to_check.trait_refs
    /\ check.contract_defining_trait.trait_refs[Expected[i].name] =
          check.contract_to_check.trait_refs[Actual[i].name]
Compatible(i) == IF BothTraits(i) THEN SameIdentity(i) ELSE admits_type(Expected[i], Actual[i])
Common == 1..Min(Len(Expected), Len(Actual))
Bad == BadTraitImplementation("T", check.self.name)

\* C7: a position where both types are trait references is compatible iff
\* both aliases resolve, each in its own contract, to equal identities: any
\* such position that is not fails the check with BadTraitImplementation,
\* and with every other position compatible the check succeeds iff all such
\* positions are; alias names play no part.
C7_NominalTraits ==
    (Checked /\ MethodDefined) =>
        /\ \A i \in Common :
              (BothTraits(i) /\ ~SameIdentity(i)) => check.result = Bad
        /\ (/\ Len(Expected) = Len(Actual)
            /\ \A i \in Common : ~BothTraits(i) => admits_type(Expected[i], Actual[i])) =>
               (check.result = Ok(Unit) <=>
                   \A i \in Common : BothTraits(i) => SameIdentity(i))

\* Different alias names resolving to the same identity pass.
C7_Witness ==
    /\ Checked /\ MethodDefined
    /\ Len(Expected) = 2 /\ Len(Actual) = 2
    /\ BothTraits(1) /\ Expected[1].name = "a" /\ Actual[1].name = "b"
    /\ BothTraits(2)
    /\ check.result = Ok(Unit)

\* C8: given that the trait defines the method, the check succeeds iff the
\* parameter counts are equal and every position is compatible, and
\* otherwise fails with BadTraitImplementation(trait name, function name),
\* wherever the incompatible position is.
C8_NoPartialSuccess ==
    (Checked /\ MethodDefined) =>
        IF Len(Expected) = Len(Actual) /\ \A i \in Common : Compatible(i)
        THEN check.result = Ok(Unit)
        ELSE check.result = Bad

\* The last position alone is incompatible.
C8_Witness ==
    /\ Checked /\ MethodDefined
    /\ Len(Expected) = 2 /\ Len(Actual) = 2
    /\ Compatible(1) /\ ~Compatible(2)
    /\ check.result = Bad

(***************************************************************************)
(* Claims about FunctionIdentifier (SpecIdent).                            *)
(***************************************************************************)
IsUser(c) == c.variant = "UserFunction"

\* C9 as claimed: a native identifier never equals a user identifier, and
\* user identifiers of different (name, context) are never equal.
C9_AsClaimed ==
    idents.state = "done" =>
        /\ (IsUser(idents.first) # IsUser(idents.second)) =>
               idents.first_id # idents.second_id
        /\ (/\ IsUser(idents.first) /\ IsUser(idents.second)
            /\ <<idents.first.name, idents.first.context>> #
                  <<idents.second.name, idents.second.context>>) =>
               idents.first_id # idents.second_id

====
